---- MODULE Spec2Model ----
(***************************************************************************)
(* Model of sanity_checks/sanity_checks_main.py: the cascading             *)
(* randomization sanity check for saliency maps.                           *)
(*                                                                         *)
(* Spec     one run of sanity_check(game, approach, ...): model loading,   *)
(*          the variant chain, the 1001 loop iterations, the result file.  *)
(* SpecSim  normalise_image and calc_sim applied to small concrete maps.   *)
(*                                                                         *)
(* In Spec a relevance map is kept symbolically, as the record of the call *)
(* that produced it (who produced it, on which input, for which action,    *)
(* with which masks); in SpecSim a map is a concrete array of pixels.      *)
(* sanity_check only appends to its five lists and reads them once, whole, *)
(* when it writes the table: a list is kept as its length and its last     *)
(* TailLen entries.                                                        *)
(***************************************************************************)
EXTENDS Integers, Sequences, FiniteSets

\* ------------------------------------------------------------------ bounds
\* stacked-frame observations are 0..MaxObs
MaxObs == 1
\* the game's action space is 0..MaxAction
MaxAction == 2
\* entries of a list that are kept: its last TailLen ones
TailLen == 7
\* pixels of a concrete map (SpecSim)
NPix == 3
\* raw pixel values of a concrete map are 0..MaxPix (SpecSim)
MaxPix == 2

\* ------------------------------------------------------- program constants
\* steps = 1001
steps_short == 1001 - 1
steps == 1001
\* if _ < 4: warm-up
WarmUpSteps == 4
\* if _ == 3: the RISE masks are generated
RiseMaskStep == 3

Games == {"pacman", "breakout", "spaceInvaders", "frostbite"}
Approaches == {"noise", "occl", "rise", "lime", "sarfa"}
\* the calls of sanity_check that are followed, out of those __main__ makes:
\* every game and every approach occurs
Runs == {<<"pacman", "noise">>, <<"breakout", "rise">>,
         <<"spaceInvaders", "occl">>, <<"frostbite", "lime">>,
         <<"breakout", "sarfa">>}

\* get_layer(index=6), 5, 3, 2, 1 for model1 .. model5
LayerOrder == <<6, 5, 3, 2, 1>>
\* layers 1..6 of the network; index 4 holds no weights and is skipped
Layers == 1..6
CheckedLayers == {i \in 1..6 : i # 4}

Slots == 0..5
\* the stacked frames the emulator can show
Frames == 0..MaxObs
\* a name that is not bound yet, an argument that is not passed
None == -1

VARIABLES
  game, approach,      \* arguments of sanity_check
  pc,                  \* <<label, k>>: position in sanity_check
  idx,                 \* the loop variable _
  models,              \* model, model1..model5: slot -> address of the model object
  weights,             \* address -> layer -> <<kernel, bias>>
  layer,               \* the local variable layer: <<slot, layer index>>
  tf_rng,              \* draws made by the weight initializers so far
  check_out,           \* what the latest check_models printed
  analyzers,           \* original_analyzer, analyzer1..analyzer5
  np_rng,              \* draws made from numpy's generator since seed(42)
  wrapper,             \* the atari wrapper: fire_reset, steps taken, frames
  saliency_fns,        \* og_saliency_fn, saliency_fn_1..5: analyzer and method bound
  stacked_frames, my_input, action,
  og_saliency_map, saliency_maps, test,
  model_list, pearson_list, ssim_list, spearman_list, action_list,
  csv,                 \* the tables to_csv has written
  image, normalised,   \* SpecSim: argument and result of normalise_image
  calls                \* SpecSim: the (learned, random) arguments of each calc_sim call

vars == <<game, approach, pc, idx, models, weights, layer, tf_rng, check_out,
          analyzers, np_rng, wrapper, saliency_fns, stacked_frames, my_input,
          action, og_saliency_map, saliency_maps, test,
          model_list, pearson_list, ssim_list, spearman_list, action_list,
          csv, image, normalised, calls>>

simVars == <<image, normalised, calls>>
listVars == <<model_list, pearson_list, ssim_list, spearman_list, action_list>>
modelVars == <<models, weights, layer, tf_rng, check_out>>
mapVars == <<og_saliency_map, saliency_maps, test>>
argVars == <<game, approach>>
loopVars == <<idx, stacked_frames, my_input, action>>

\* ---------------------------------------------------------------- the lists
EmptyList == [len |-> 0, tail |-> <<>>]
\* list.append(x)
ListAppend(l, x) ==
  [len |-> l.len + 1,
   tail |-> IF Len(l.tail) < TailLen THEN Append(l.tail, x)
                                     ELSE Append(Tail(l.tail), x)]
\* list[i-1], for a row i that is among the kept ones
Row(l, i) == l.tail[i - (l.len - Len(l.tail))]

\* ------------------------------------------------------------ the models
\* keras.models.load_model: the trained network, every layer with its
\* trained <<kernel, bias>>
TrainedWeights == [l \in Layers |-> <<0, 0>>]

\* keras.models.clone_model + set_weights: a new model object holding a copy
\* of the weights of the model at address src
copy_model_alias(heap, src) == [heap |-> heap, ref |-> src]
copy_model(heap, src) ==
  LET new == Cardinality(DOMAIN heap)
  IN  [heap |-> [a \in DOMAIN heap \cup {new} |->
                   IF a = new THEN heap[src] ELSE heap[a]],
       ref |-> new]

\* init_layer: the initializer draws new values for the kernel and the bias
\* of the one layer it is given
init_layer(heap, addr, l, rng) ==
  [heap EXCEPT ![addr] = [@ EXCEPT ![l] = <<rng + 1, rng + 2>>]]

\* check_models: for the layers 1,2,3,5,6 the two printed comparisons
check_models(heap, a1, a0) ==
  [i \in CheckedLayers |-> <<heap[a1][i][1] = heap[a0][i][1],
                             heap[a1][i][2] = heap[a0][i][2]>>]

\* explainer(model): a new analyzer bound to the model, no masks yet
explainer(ref) == [model |-> ref, rise_masks |-> None, masks_generated |-> FALSE]

\* the layers whose weights differ from the trained ones
Randomized(k) ==
  {l \in Layers : weights[models[k]][l] # weights[models[0]][l]}

\* --------------------------------------------------------------------- Init
NoMap == [by |-> None, model |-> None, method |-> "", input |-> None,
          neuron |-> None, masks |-> None, step |-> None]

SimIdle == image = [pix |-> <<>>, den |-> 1] /\ normalised = image /\ calls = <<>>

Init ==
  /\ game \in Games
  /\ approach \in Approaches
  /\ <<game, approach>> \in Runs
  /\ pc = <<"load", 0>>
  /\ idx = None
  /\ models = [k \in Slots |-> None]
  /\ weights = [a \in {} |-> TrainedWeights]
  /\ layer = <<None, None>>
  /\ tf_rng = 0
  /\ check_out = [i \in CheckedLayers |-> <<TRUE, TRUE>>]
  /\ analyzers = [k \in Slots |-> explainer(None)]
  /\ np_rng = 0
  /\ wrapper = [fire_reset |-> FALSE, frames |-> None, step_calls |-> 0,
                fixed_steps |-> 0]
  /\ saliency_fns = [k \in Slots |-> [analyzer |-> None, method |-> ""]]
  /\ stacked_frames = None
  /\ my_input = None
  /\ action = None
  /\ og_saliency_map = NoMap
  /\ saliency_maps = [k \in 1..5 |-> NoMap]
  /\ test = NoMap
  /\ model_list = EmptyList
  /\ pearson_list = EmptyList
  /\ ssim_list = EmptyList
  /\ spearman_list = EmptyList
  /\ action_list = EmptyList
  /\ csv = <<>>
  /\ SimIdle

\* ------------------------------------------------------- setting up the run
\* lines 193-206: the model of the game is loaded
LoadModel ==
  /\ pc = <<"load", 0>>
  /\ weights' = [a \in {0} |-> TrainedWeights]
  /\ models' = [models EXCEPT ![0] = 0]
  /\ pc' = <<"reset", 0>>
  /\ UNCHANGED <<argVars, loopVars, layer, tf_rng, check_out, analyzers,
                 np_rng, wrapper, saliency_fns, mapVars, listVars, csv, simVars>>

\* lines 208-212: the environment is reset and wrapped; the wrapper presses
\* fire after a reset for spaceInvaders and breakout
ResetEnv ==
  /\ pc = <<"reset", 0>>
  /\ \E f \in Frames :
       wrapper' = [fire_reset |-> (game = "spaceInvaders") \/ (game = "breakout"),
                   frames |-> f, step_calls |-> 0, fixed_steps |-> 0]
  /\ pc' = <<"explainer", 0>>
  /\ UNCHANGED <<argVars, loopVars, modelVars, analyzers, np_rng,
                 saliency_fns, mapVars, listVars, csv, simVars>>

\* lines 216, 223, 230, 237, 244, 251: the analyzer of model k
next_after_explainer(k) == IF k < 5 THEN <<"copy", k + 1>> ELSE <<"bind", 0>>
CreateAnalyzer ==
  \E k \in Slots :
    /\ pc = <<"explainer", k>>
    /\ analyzers' = [analyzers EXCEPT ![k] = explainer(models[k])]
    /\ pc' = next_after_explainer(k)
    /\ UNCHANGED <<argVars, loopVars, modelVars, np_rng, wrapper,
                   saliency_fns, mapVars, listVars, csv, simVars>>

\* lines 219, 226, 233, 240, 247: model k is a copy of model k-1
CopyModel ==
  \E k \in 1..5 :
    /\ pc = <<"copy", k>>
    /\ LET c == copy_model(weights, models[k - 1])
       IN  /\ weights' = c.heap
           /\ models' = [models EXCEPT ![k] = c.ref]
    /\ pc' = <<"init", k>>
    /\ UNCHANGED <<argVars, loopVars, layer, tf_rng, check_out, analyzers,
                   np_rng, wrapper, saliency_fns, mapVars, listVars, csv,
                   simVars>>

\* lines 220-221 (227-228, ...): one layer of model k is taken by its index
\* and re-initialized
InitLayer ==
  \E k \in 1..5 :
    /\ pc = <<"init", k>>
    /\ layer' = <<k, LayerOrder[k]>>
    /\ weights' = init_layer(weights, models[k], LayerOrder[k], tf_rng)
    /\ tf_rng' = tf_rng + 2
    /\ pc' = <<"check", k>>
    /\ UNCHANGED <<argVars, loopVars, models, check_out, analyzers, np_rng,
                   wrapper, saliency_fns, mapVars, listVars, csv, simVars>>

\* lines 222, 229, 236, 243, 250: model k is compared with model k-1 and the
\* comparisons are printed
CheckModelsRaising ==
  \E k \in 1..5 :
    /\ pc = <<"check", k>>
    /\ check_out' = check_models(weights, models[k], models[k - 1])
    /\ pc' = IF \A i \in CheckedLayers : check_out'[i] = <<TRUE, TRUE>>
                THEN <<"explainer", k>> ELSE <<"aborted", 0>>
    /\ UNCHANGED <<argVars, loopVars, models, weights, layer, tf_rng,
                   analyzers, np_rng, wrapper, saliency_fns, mapVars, listVars,
                   csv, simVars>>
CheckModels ==
  \E k \in 1..5 :
    /\ pc = <<"check", k>>
    /\ check_out' = check_models(weights, models[k], models[k - 1])
    /\ pc' = <<"explainer", k>>
    /\ UNCHANGED <<argVars, loopVars, models, weights, layer, tf_rng,
                   analyzers, np_rng, wrapper, saliency_fns, mapVars, listVars,
                   csv, simVars>>

\* ---------------------------------------------------- explanation callables
\* lines 253-318: the explainer method each approach binds
Method(a) ==
  CASE a = "noise" -> "generate_greydanus_explanation"
    [] a = "occl"  -> "generate_occlusion_explanation"
    [] a = "rise"  -> "generate_rise_prediction"
    [] a = "lime"  -> "generate_lime_explanation"
    [] a = "sarfa" -> "generate_sarfa_explanation"

\* og_saliency_fn is bound to original_analyzer, saliency_fn_k to analyzerk
BindSaliencyFnsSwapped ==
  /\ pc = <<"bind", 0>>
  /\ saliency_fns' = [k \in Slots |-> [analyzer |-> IF k = 3 THEN 2 ELSE k,
                                        method |-> Method(approach)]]
  /\ pc' = <<"fixed_reset", 0>>
  /\ UNCHANGED <<argVars, loopVars, modelVars, analyzers, np_rng, wrapper,
                 mapVars, listVars, csv, simVars>>
BindSaliencyFns ==
  /\ pc = <<"bind", 0>>
  /\ saliency_fns' = [k \in Slots |-> [analyzer |-> k, method |-> Method(approach)]]
  /\ pc' = <<"fixed_reset", 0>>
  /\ UNCHANGED <<argVars, loopVars, modelVars, analyzers, np_rng, wrapper,
                 mapVars, listVars, csv, simVars>>

\* generate_rise_prediction keeps the analyzer's masks: it draws them on the
\* analyzer's first call and uses the stored ones afterwards
generate_rise_masks(an, rng) ==
  IF an.masks_generated
    THEN [analyzer |-> an, np_rng |-> rng]
    ELSE [analyzer |-> [an EXCEPT !.rise_masks = rng + 1, !.masks_generated = TRUE],
          np_rng |-> rng + 1]

\* a call fn(x, neuron_selection=neuron) at loop index at: the relevance map,
\* and the analyzers and numpy's generator after the call
call_saliency_fn(fn, ans, rng, x, neuron, at) ==
  LET r == IF fn.method = "generate_rise_prediction"
             THEN generate_rise_masks(ans[fn.analyzer], rng)
             ELSE [analyzer |-> ans[fn.analyzer], np_rng |-> rng]
  IN  [analyzers |-> [ans EXCEPT ![fn.analyzer] = r.analyzer],
       np_rng |-> r.np_rng,
       map |-> [by |-> fn.analyzer, model |-> r.analyzer.model,
                method |-> fn.method, input |-> x, neuron |-> neuron,
                masks |-> IF fn.method = "generate_rise_prediction"
                            THEN r.analyzer.rise_masks ELSE None,
                step |-> at]]

\* lines 343-352: analyzer1..5 take the masks of original_analyzer
share_masks_none(ans) == ans
share_masks(ans) ==
  [k \in Slots |-> IF k = 0 THEN ans[0]
                   ELSE [ans[k] EXCEPT !.rise_masks = ans[0].rise_masks,
                                       !.masks_generated = TRUE]]

\* calc_sim in the run: the score of a candidate map against the reference
\* map is kept as the pair (step of the reference map, producer of the
\* candidate), coded 8 * step + producer
Score(learned_relevance, random_relevance) ==
  8 * learned_relevance.step + random_relevance.by

\* ----------------------------------------------------- model and environment
\* model.predict: the action values of a network on stacked frames
Predict(w, frames) ==
  [a \in 0..MaxAction |->
     ((frames + 2 + w[6][1] + w[5][1] + w[3][1] + w[2][1] + w[1][1]) * (a + 1)) % 7]

\* np.argmax: the first index holding the largest value
Argmax(q) ==
  CHOOSE a \in DOMAIN q :
    /\ \A b \in DOMAIN q : q[b] <= q[a]
    /\ \A b \in DOMAIN q : b < a => q[b] < q[a]

\* ------------------------------------------------------------------ the loop
\* lines 321-327: the fixed start, then the loop begins with _ = 0
FixedReset ==
  /\ pc = <<"fixed_reset", 0>>
  /\ \E f \in Frames :
       wrapper' = [wrapper EXCEPT !.frames = f,
                                  !.fixed_steps = IF game = "pacman" THEN 200 ELSE 1]
  /\ idx' = 0
  /\ pc' = <<"loop", 0>>
  /\ UNCHANGED <<argVars, stacked_frames, my_input, action, modelVars,
                 analyzers, np_rng, saliency_fns, mapVars, listVars, csv,
                 simVars>>

\* lines 331-352: a warm-up iteration: the fixed action, and for rise at
\* _ == 3 the call that generates the masks and their hand-over
WarmUpSampled ==
  /\ pc = <<"loop", 0>>
  /\ idx < steps
  /\ idx < WarmUpSteps
  /\ action' \in 0..MaxAction
  /\ IF approach = "rise" /\ idx = RiseMaskStep
       THEN LET r == call_saliency_fn(saliency_fns[0], analyzers, np_rng,
                                      stacked_frames, None, idx)
            IN  /\ og_saliency_map' = r.map
                /\ analyzers' = share_masks(r.analyzers)
                /\ np_rng' = r.np_rng
       ELSE UNCHANGED <<og_saliency_map, analyzers, np_rng>>
  /\ pc' = <<"step", 0>>
  /\ UNCHANGED <<argVars, idx, stacked_frames, my_input, modelVars, wrapper,
                 saliency_fns, saliency_maps, test, listVars, csv, simVars>>
WarmUp ==
  /\ pc = <<"loop", 0>>
  /\ idx < steps
  /\ idx < WarmUpSteps
  /\ action' = IF game = "breakout" THEN 1 ELSE 0
  /\ IF approach = "rise" /\ idx = RiseMaskStep
       THEN LET r == call_saliency_fn(saliency_fns[0], analyzers, np_rng,
                                      stacked_frames, None, idx)
            IN  /\ og_saliency_map' = r.map
                /\ analyzers' = share_masks(r.analyzers)
                /\ np_rng' = r.np_rng
       ELSE UNCHANGED <<og_saliency_map, analyzers, np_rng>>
  /\ pc' = <<"step", 0>>
  /\ UNCHANGED <<argVars, idx, stacked_frames, my_input, modelVars, wrapper,
                 saliency_fns, saliency_maps, test, listVars, csv, simVars>>

\* lines 354-359: the original model chooses the action
select_action_by_variant(k) == Argmax(Predict(weights[models[5]], stacked_frames))
select_action(k) == Argmax(Predict(weights[models[k]], stacked_frames))
Select ==
  /\ pc = <<"loop", 0>>
  /\ idx < steps
  /\ ~(idx < WarmUpSteps)
  /\ my_input' = stacked_frames
  /\ action' = select_action(0)
  /\ pc' = <<"analyze", 0>>
  /\ UNCHANGED <<argVars, idx, stacked_frames, modelVars, analyzers, np_rng,
                 wrapper, saliency_fns, mapVars, listVars, csv, simVars>>

\* lines 362-363: the map of the fully trained model
Analyze ==
  /\ pc = <<"analyze", 0>>
  /\ LET r == call_saliency_fn(saliency_fns[0], analyzers, np_rng,
                               my_input, action, idx)
     IN  /\ og_saliency_map' = r.map
         /\ analyzers' = r.analyzers
         /\ np_rng' = r.np_rng
  /\ pc' = <<"compare", 1>>
  /\ UNCHANGED <<argVars, loopVars, modelVars, wrapper, saliency_fns,
                 saliency_maps, test, listVars, csv, simVars>>

\* calc_sim appends one score to each of the three lists; then the action
\* and the label are appended (lines 370-373 and alike)
record_similarity_dropping(cand, label) ==
  /\ pearson_list' = ListAppend(pearson_list, Score(og_saliency_map, cand))
  /\ ssim_list' = ListAppend(ssim_list, Score(og_saliency_map, cand))
  /\ spearman_list' = ListAppend(spearman_list, Score(og_saliency_map, cand))
  /\ action_list' = IF label = 7 THEN action_list ELSE ListAppend(action_list, action)
  /\ model_list' = ListAppend(model_list, label)
record_similarity(cand, label) ==
  /\ pearson_list' = ListAppend(pearson_list, Score(og_saliency_map, cand))
  /\ ssim_list' = ListAppend(ssim_list, Score(og_saliency_map, cand))
  /\ spearman_list' = ListAppend(spearman_list, Score(og_saliency_map, cand))
  /\ action_list' = ListAppend(action_list, action)
  /\ model_list' = ListAppend(model_list, label)

\* lines 368-397: the map of variant k, its similarity to the original map
Compare ==
  \E k \in 1..5 :
    /\ pc = <<"compare", k>>
    /\ LET r == call_saliency_fn(saliency_fns[k], analyzers, np_rng,
                                 my_input, action, idx)
       IN  /\ saliency_maps' = [saliency_maps EXCEPT ![k] = r.map]
           /\ analyzers' = r.analyzers
           /\ np_rng' = r.np_rng
           /\ record_similarity(r.map, k)
    /\ pc' = <<"compare", k + 1>>
    /\ UNCHANGED <<argVars, loopVars, modelVars, wrapper, saliency_fns,
                   og_saliency_map, test, csv, simVars>>

\* lines 400-409: the uniform (6) and the Gaussian (7) random map
random_map(label, at) ==
  [by |-> label, model |-> None,
   method |-> IF label = 6 THEN "np.random.rand" ELSE "np.random.normal",
   input |-> None, neuron |-> None, masks |-> None, step |-> at]
RandomTest ==
  \E k \in 6..7 :
    /\ pc = <<"compare", k>>
    /\ test' = random_map(k, idx)
    /\ np_rng' = np_rng + 1
    /\ record_similarity(test', k)
    /\ pc' = IF k = 6 THEN <<"compare", 7>> ELSE <<"step", 0>>
    /\ UNCHANGED <<argVars, loopVars, modelVars, analyzers, wrapper,
                   saliency_fns, og_saliency_map, saliency_maps, csv, simVars>>

\* line 411: the environment advances by one step with the chosen action
Step ==
  /\ pc = <<"step", 0>>
  /\ \E f \in Frames :
       wrapper' = [wrapper EXCEPT !.frames = f, !.step_calls = @ + 1]
  /\ stacked_frames' = wrapper'.frames
  /\ idx' = idx + 1
  /\ pc' = <<"loop", 0>>
  /\ UNCHANGED <<argVars, my_input, action, modelVars, analyzers, np_rng,
                 saliency_fns, mapVars, listVars, csv, simVars>>

\* lines 414-421: after the loop the lists become the columns of one table,
\* which is written; columns of unequal length raise
WriteResultsEveryIteration ==
  /\ pc = <<"loop", 0>>
  /\ Len(csv) < 2
  /\ csv' = Append(csv, [rand_layer |-> model_list, pearson |-> pearson_list,
                         ssim |-> ssim_list, spearman |-> spearman_list,
                         action |-> action_list])
  /\ pc' = IF idx < steps THEN pc ELSE <<"close", 0>>
  /\ UNCHANGED <<argVars, loopVars, modelVars, analyzers, np_rng, wrapper,
                 saliency_fns, mapVars, listVars, simVars>>
WriteResults ==
  /\ pc = <<"loop", 0>>
  /\ ~(idx < steps)
  /\ IF /\ pearson_list.len = model_list.len
        /\ ssim_list.len = model_list.len
        /\ spearman_list.len = model_list.len
        /\ action_list.len = model_list.len
       THEN /\ csv' = Append(csv, [rand_layer |-> model_list,
                                   pearson |-> pearson_list,
                                   ssim |-> ssim_list,
                                   spearman |-> spearman_list,
                                   action |-> action_list])
            /\ pc' = <<"close", 0>>
       ELSE /\ csv' = csv
            /\ pc' = <<"aborted", 0>>
  /\ UNCHANGED <<argVars, loopVars, modelVars, analyzers, np_rng, wrapper,
                 saliency_fns, mapVars, listVars, simVars>>

\* line 422
Close ==
  /\ pc = <<"close", 0>>
  /\ pc' = <<"done", 0>>
  /\ UNCHANGED <<argVars, loopVars, modelVars, analyzers, np_rng, wrapper,
                 saliency_fns, mapVars, listVars, csv, simVars>>

\* an exception in model loading, in the environment or in an explanation
\* ends the run: nothing catches it, the lists are lost with the process
Fallible == {"load", "reset", "fixed_reset", "loop", "analyze", "compare", "step"}
Raise ==
  /\ pc[1] \in Fallible
  /\ pc' = <<"aborted", 0>>
  /\ models' = [k \in Slots |-> None]
  /\ weights' = [a \in {} |-> TrainedWeights]
  /\ layer' = <<None, None>>
  /\ tf_rng' = 0
  /\ check_out' = [i \in CheckedLayers |-> <<TRUE, TRUE>>]
  /\ analyzers' = [k \in Slots |-> explainer(None)]
  /\ np_rng' = 0
  /\ wrapper' = [fire_reset |-> FALSE, frames |-> None, step_calls |-> 0,
                 fixed_steps |-> 0]
  /\ saliency_fns' = [k \in Slots |-> [analyzer |-> None, method |-> ""]]
  /\ stacked_frames' = None
  /\ my_input' = None
  /\ action' = None
  /\ og_saliency_map' = NoMap
  /\ saliency_maps' = [k \in 1..5 |-> NoMap]
  /\ test' = NoMap
  /\ model_list' = EmptyList
  /\ pearson_list' = EmptyList
  /\ ssim_list' = EmptyList
  /\ spearman_list' = EmptyList
  /\ action_list' = EmptyList
  /\ UNCHANGED <<argVars, idx, csv, simVars>>

Next ==
  \/ LoadModel \/ ResetEnv \/ CreateAnalyzer \/ CopyModel \/ InitLayer
  \/ CheckModels \/ BindSaliencyFns \/ FixedReset \/ WarmUp \/ Select
  \/ Analyze \/ Compare \/ RandomTest \/ Step \/ WriteResults \/ Close
  \/ Raise

Spec == Init /\ [][Next]_vars

\* ----------------------------------------------- normalise_image and calc_sim
\* A concrete map is a row of NPix pixels, each pix[i] / den (the flattened
\* map; the rational values are exact).
NoImage == [pix |-> <<>>, den |-> 1]
Images == {[pix |-> s, den |-> 1] : s \in [1..NPix -> 0..MaxPix]}

MinOf(s) == CHOOSE v \in {s[i] : i \in DOMAIN s} : \A i \in DOMAIN s : v <= s[i]
MaxOf(s) == CHOOSE v \in {s[i] : i \in DOMAIN s} : \A i \in DOMAIN s : v >= s[i]
RECURSIVE SumTo(_, _)
SumTo(s, n) == IF n = 0 THEN 0 ELSE s[n] + SumTo(s, n - 1)
Sum(s) == SumTo(s, Len(s))
Dot(u, v) == Sum([i \in 1..Len(u) |-> u[i] * v[i]])
Abs(x) == IF x < 0 THEN -x ELSE x
RECURSIVE GCD(_, _)
GCD(a, b) == IF b = 0 THEN a ELSE GCD(b, a % b)

\* image - image.min(); then image / image.max() unless that max is 0
normalise_image_no_shift(im) ==
  LET mx == MaxOf(im.pix)
  IN  IF mx # 0 THEN [pix |-> im.pix, den |-> mx] ELSE im
normalise_image(im) ==
  LET m == MinOf(im.pix)
      shifted == [i \in 1..Len(im.pix) |-> im.pix[i] - m]
      mx == MaxOf(shifted)
  IN  IF mx # 0 THEN [pix |-> shifted, den |-> mx]
                ELSE [pix |-> shifted, den |-> im.den]

\* 1 - image
OneMinus(im) == [pix |-> [i \in 1..Len(im.pix) |-> im.den - im.pix[i]], den |-> im.den]

\* A score is sgn * p / q in lowest terms for ssim, sgn * sqrt(p / q) for a
\* correlation; q = 0 is nan.
NaN == [sgn |-> 0, p |-> 0, q |-> 0]
One == [sgn |-> 1, p |-> 1, q |-> 1]
Fraction(num, den) ==
  IF num = 0 THEN [sgn |-> 0, p |-> 0, q |-> 1]
  ELSE LET g == GCD(Abs(num), Abs(den))
       IN  [sgn |-> IF (num < 0) = (den < 0) THEN 1 ELSE -1,
            p |-> Abs(num) \div g, q |-> Abs(den) \div g]

\* a / b < c / d for positive fractions, by their continued fractions
RECURSIVE PosLess(_, _, _, _)
PosLess(a, b, c, d) ==
  IF a \div b # c \div d THEN a \div b < c \div d
  ELSE IF c % d = 0 THEN FALSE
  ELSE IF a % b = 0 THEN TRUE
  ELSE PosLess(d, c % d, b, a % b)

\* y > x on scores; a comparison with nan is false
Greater(y, x) ==
  IF x.q = 0 \/ y.q = 0 THEN FALSE
  ELSE IF y.sgn # x.sgn THEN y.sgn > x.sgn
  ELSE IF y.sgn = 0 THEN FALSE
  ELSE IF y.sgn = 1 THEN PosLess(x.p, x.q, y.p, y.q)
  ELSE PosLess(y.p, y.q, x.p, x.q)
\* Python's max(x, y): y when y > x, x otherwise
PyMax(x, y) == IF Greater(y, x) THEN y ELSE x

\* scipy pearsonr on two vectors: nan when one of them is constant
Corr(u, v) ==
  LET n == Len(u)
      num == n * Dot(u, v) - Sum(u) * Sum(v)
      du == n * Dot(u, u) - Sum(u) * Sum(u)
      dv == n * Dot(v, v) - Sum(v) * Sum(v)
  IN  IF du = 0 \/ dv = 0 THEN NaN
      ELSE LET f == Fraction(num * num, du * dv)
           IN  [f EXCEPT !.sgn = IF num > 0 THEN 1 ELSE IF num < 0 THEN -1 ELSE 0]

\* scipy rankdata (average ranks of ties), doubled
Rank2(s) ==
  [i \in 1..Len(s) |->
     2 * Cardinality({j \in 1..Len(s) : s[j] < s[i]})
       + Cardinality({j \in 1..Len(s) : s[j] = s[i]}) + 1]
\* scipy spearmanr: the correlation of the ranks
Spearman(x, y) == Corr(Rank2(x.pix), Rank2(y.pix))

\* skimage structural_similarity with data_range=1, for a map that one
\* window covers: luminance term times contrast-structure term, the
\* stabilising constants (0.01^2, 0.03^2) taken as 0, a term 0/0 being 1
SSIM(x, y) ==
  LET n == Len(x.pix)
      a == Sum(x.pix)
      b == Sum(y.pix)
      cxy == n * Dot(x.pix, y.pix) - a * b
      cx == n * Dot(x.pix, x.pix) - a * a
      cy == n * Dot(y.pix, y.pix) - b * b
      lumD == a * a * y.den * y.den + b * b * x.den * x.den
      strD == cx * y.den * y.den + cy * x.den * x.den
      lum == IF lumD = 0 THEN One ELSE Fraction(2 * a * b * x.den * y.den, lumD)
      str == IF strD = 0 THEN One ELSE Fraction(2 * cxy * x.den * y.den, strD)
  IN  Fraction(lum.sgn * str.sgn * lum.p * str.p, lum.q * str.q)

\* skimage hog on the row of pixels: the magnitude of the central-difference
\* gradient at each pixel, 0 at the two borders; the orientation is unsigned,
\* so a rising and a falling edge give the same feature
Hog(im) ==
  [i \in 1..Len(im.pix) |->
     IF i = 1 \/ i = Len(im.pix) THEN 0
     ELSE Abs(im.pix[i + 1] - im.pix[i - 1])]

\* calc_sim, lines 139-159: the three scores of a candidate map against the
\* learned one, each the larger of the score of the candidate and the score
\* of its complement
calc_sim_scores_no_max(learned_relevance, random_relevance) ==
  LET learned == normalise_image(learned_relevance)
      random == normalise_image(random_relevance)
  IN  [pearson |-> Corr(Hog(random), Hog(learned)),
       ssim |-> SSIM(random, learned),
       spearman |-> Spearman(random, learned)]
calc_sim_scores(learned_relevance, random_relevance) ==
  LET learned == normalise_image(learned_relevance)
      random == normalise_image(random_relevance)
      neg_random == OneMinus(random)
  IN  [pearson |-> PyMax(Corr(Hog(random), Hog(learned)),
                         Corr(Hog(neg_random), Hog(learned))),
       ssim |-> PyMax(SSIM(random, learned), SSIM(neg_random, learned)),
       spearman |-> PyMax(Spearman(random, learned), Spearman(neg_random, learned))]

InitSim ==
  /\ image \in Images
  /\ normalised = NoImage
  /\ calls = <<>>
  /\ game = "" /\ approach = ""
  /\ pc = <<"sim", 0>>
  /\ idx = None
  /\ models = [k \in Slots |-> None]
  /\ weights = [a \in {} |-> TrainedWeights]
  /\ layer = <<None, None>>
  /\ tf_rng = 0
  /\ check_out = [i \in CheckedLayers |-> <<TRUE, TRUE>>]
  /\ analyzers = [k \in Slots |-> explainer(None)]
  /\ np_rng = 0
  /\ wrapper = [fire_reset |-> FALSE, frames |-> None, step_calls |-> 0,
                fixed_steps |-> 0]
  /\ saliency_fns = [k \in Slots |-> [analyzer |-> None, method |-> ""]]
  /\ stacked_frames = None
  /\ my_input = None
  /\ action = None
  /\ og_saliency_map = NoMap
  /\ saliency_maps = [k \in 1..5 |-> NoMap]
  /\ test = NoMap
  /\ model_list = EmptyList
  /\ pearson_list = EmptyList
  /\ ssim_list = EmptyList
  /\ spearman_list = EmptyList
  /\ action_list = EmptyList
  /\ csv = <<>>

runVars == <<argVars, pc, loopVars, modelVars, analyzers, np_rng, wrapper,
             saliency_fns, mapVars, model_list, action_list, csv>>

\* normalise_image(image)
NormaliseImage ==
  /\ normalised = NoImage
  /\ normalised' = normalise_image(image)
  /\ UNCHANGED <<runVars, image, calls, pearson_list, ssim_list, spearman_list>>

\* calc_sim(image, candidate, pearson_list, ssim_list, spearman_list) with
\* the map itself, or with its complement 1 - normalised map, as candidate
CalcSim ==
  \E cand \in {image, OneMinus(normalise_image(image))} :
    /\ \A i \in 1..Len(calls) : calls[i].random # cand
    /\ calls' = Append(calls, [learned |-> image, random |-> cand])
    /\ LET r == calc_sim_scores(image, cand)
       IN  /\ pearson_list' = ListAppend(pearson_list, r.pearson)
           /\ ssim_list' = ListAppend(ssim_list, r.ssim)
           /\ spearman_list' = ListAppend(spearman_list, r.spearman)
    /\ UNCHANGED <<runVars, image, normalised>>

NextSim == NormaliseImage \/ CalcSim

SpecSim == InitSim /\ [][NextSim]_vars

\* ------------------------------------------------------------------- claims
InLoop == pc[1] \in {"loop", "analyze", "compare", "step"}
PostWarmUp == pc[1] \in {"analyze", "compare"} \/ (pc[1] = "step" /\ idx >= WarmUpSteps)
\* comparator k has been evaluated in the current iteration
Evaluated(k) == (pc[1] = "compare" /\ pc[2] > k) \/ pc[1] = "step"
\* the row that comparator k appended in the current iteration
RowOf(k) == 7 * (idx - WarmUpSteps) + k

\* C1: in a post-warm-up iteration the action is the argmax of the original
\* model's output on the current stacked frames; the original map and the
\* maps of the five variants are produced from that state and that action,
\* the two random maps are scored against the original map of the step and
\* recorded with that action; the wrapper is not stepped during the
\* comparisons (the frames stay put) and is stepped once after them (the
\* count of wrapper.step calls equals the loop index all along the loop).
C1_SameStateSameAction ==
  /\ InLoop => wrapper.step_calls = idx
  /\ PostWarmUp =>
       /\ action = Argmax(Predict(weights[models[0]], stacked_frames))
       /\ my_input = stacked_frames
       /\ wrapper.frames = stacked_frames
       /\ pc[1] # "analyze" =>
            /\ og_saliency_map.by = 0
            /\ og_saliency_map.step = idx
            /\ og_saliency_map.input = stacked_frames
            /\ og_saliency_map.neuron = action
       /\ \A k \in 1..5 : Evaluated(k) =>
            /\ saliency_maps[k].by = k
            /\ saliency_maps[k].step = idx
            /\ saliency_maps[k].input = stacked_frames
            /\ saliency_maps[k].neuron = action
       /\ \A k \in 1..7 : Evaluated(k) =>
            /\ Row(action_list, RowOf(k)) = action
            /\ Row(pearson_list, RowOf(k)) = 8 * idx + k
C1_Witness ==
  /\ pc = <<"step", 0>>
  /\ idx > WarmUpSteps
  /\ saliency_maps[5].step = idx
  /\ test.by = 7 /\ test.step = idx
  /\ wrapper.step_calls = idx
  /\ action = 1

\* C2: every post-warm-up iteration emits exactly 7 records: the five lists
\* have the same length at every point of the run, 7 * (iterations done) +
\* (comparisons done); after the 7 comparisons of a step the last 7 rows of
\* the lists carry the labels 1..7 in order, the action of the step, and the
\* scores of that step and that comparator.
C2_SevenRecordsPerStep ==
  LET n == model_list.len
  IN  /\ pearson_list.len = n /\ ssim_list.len = n
      /\ spearman_list.len = n /\ action_list.len = n
      /\ pc[1] = "loop" =>
            n = 7 * (IF idx > WarmUpSteps THEN idx - WarmUpSteps ELSE 0)
      /\ pc[1] = "analyze" => n = 7 * (idx - WarmUpSteps)
      /\ pc[1] = "compare" => n = 7 * (idx - WarmUpSteps) + (pc[2] - 1)
      /\ (pc[1] = "step" /\ idx >= WarmUpSteps) =>
            /\ n = 7 * (idx - WarmUpSteps + 1)
            /\ \A j \in 1..7 :
                 /\ Row(model_list, n - 7 + j) = j
                 /\ Row(action_list, n - 7 + j) = action
                 /\ Row(pearson_list, n - 7 + j) = 8 * idx + j
                 /\ Row(ssim_list, n - 7 + j) = 8 * idx + j
                 /\ Row(spearman_list, n - 7 + j) = 8 * idx + j
C2_Witness ==
  /\ pc = <<"step", 0>>
  /\ idx = WarmUpSteps + 2
  /\ model_list.len = 21
  /\ Row(model_list, 21) = 7
  /\ Row(action_list, 21) = action

\* C3 (as amended): a completed run (1001 iterations, warm-up on 0..3) holds
\* exactly 7 records for each of the steps 4..1000, which is 7 * 997 = 6979
\* in all, and every rand_layer value is one of 1..7: every label in the list
\* is in 1..7, the records of step s are the rows 7*(s-4)+1 .. 7*(s-4)+7 for
\* s in 4..1000, no record is made in another step, and the lists end with
\* 6979 rows.
C3_CompletedRunRecords ==
  /\ \A j \in 1..Len(model_list.tail) : model_list.tail[j] \in 1..7
  /\ \A j \in 1..Len(pearson_list.tail) : (pearson_list.tail[j] \div 8) \in 4..1000
  /\ (pc[1] = "step" /\ idx >= 4) =>
       /\ idx <= 1000
       /\ model_list.len = 7 * (idx - 4) + 7
       /\ \A j \in 1..7 : Row(pearson_list, 7 * (idx - 4) + j) \div 8 = idx
  /\ (pc[1] = "step" /\ idx < 4) => model_list.len = 0
  /\ pc[1] \in {"close", "done"} =>
       /\ idx = 1001
       /\ model_list.len = 6979
       /\ pearson_list.len = 6979
       /\ Row(pearson_list, 6979) \div 8 = 1000
C3_Witness ==
  /\ pc = <<"done", 0>>
  /\ model_list.len = 6979
  /\ Row(model_list, 6979) = 7
  /\ Len(csv) = 1

\* C3 as stated: a completed run totals 6993 records.
C3_Total6993 ==
  pc[1] \in {"close", "done"} => model_list.len = 6993

\* C4: the table a completed run writes has exactly 7000 rows.
C4_SevenThousandRows ==
  csv # <<>> => csv[1].rand_layer.len = 7000

\* C5: the variant chain is nested: once variant k is derived its
\* re-initialized layers are those of variant k-1 plus the one new layer
\* LayerOrder[k], in the order 6, 5, 3, 2, 1; a fresh copy equals its
\* predecessor; layer 4 is never taken for re-initialization; the original
\* model keeps the trained weights and the models are distinct objects, so
\* deriving a variant changes no model derived before it.
Derived(k) == models[k] # None /\ pc # <<"init", k>>
C5_NestedChain ==
  /\ layer[2] # 4
  /\ models[0] # None =>
       /\ weights[models[0]] = TrainedWeights
       /\ Randomized(0) = {}
       /\ \A k \in 1..5 :
            /\ models[k] # None =>
                 /\ \A j \in 0..(k - 1) : models[j] # models[k]
                 /\ 4 \notin Randomized(k)
            /\ (models[k] # None /\ pc = <<"init", k>>) =>
                 Randomized(k) = Randomized(k - 1)
            /\ Derived(k) =>
                 /\ LayerOrder[k] \notin Randomized(k - 1)
                 /\ Randomized(k) = Randomized(k - 1) \cup {LayerOrder[k]}
                 /\ Randomized(k) = {LayerOrder[j] : j \in 1..k}
C5_Witness ==
  /\ pc = <<"bind", 0>>
  /\ Randomized(5) = {6, 5, 3, 2, 1}
  /\ Randomized(1) = {6}
  /\ Randomized(0) = {}

\* C6: for approach rise the masks are generated once, by the call of the
\* original analyzer at warm-up step 3 (before it no analyzer holds masks;
\* they are the first draw from numpy's generator and stay the same to the
\* end of the run); from the end of step 3 on, hence before any variant
\* callable is invoked at step 4, all six analyzers hold these masks with
\* masks_generated set; every map of the original and of the variants made
\* at a step >= 4 uses these masks.
MasksShared ==
  \A k \in Slots : /\ analyzers[k].masks_generated
                    /\ analyzers[k].rise_masks = analyzers[0].rise_masks
C6_SharedRiseMasks ==
  (approach = "rise" /\ InLoop) =>
    /\ (idx < RiseMaskStep \/ (idx = RiseMaskStep /\ pc[1] = "loop")) =>
         \A k \in Slots : /\ ~analyzers[k].masks_generated
                           /\ analyzers[k].rise_masks = None
    /\ (idx > RiseMaskStep \/ (idx = RiseMaskStep /\ pc[1] = "step")) =>
         /\ MasksShared
         /\ analyzers[0].rise_masks = 1
         /\ og_saliency_map.masks = analyzers[0].rise_masks
    /\ PostWarmUp =>
         \A k \in 1..5 : Evaluated(k) =>
           /\ saliency_maps[k].step = idx
           /\ saliency_maps[k].masks = og_saliency_map.masks
           /\ saliency_maps[k].masks = analyzers[0].rise_masks
C6_Witness ==
  /\ approach = "rise"
  /\ pc = <<"step", 0>>
  /\ idx = WarmUpSteps + 1
  /\ og_saliency_map.masks # None
  /\ saliency_maps[5].masks = og_saliency_map.masks
  /\ saliency_maps[5].step = idx
  /\ MasksShared

\* C7: the result file is written once, after all 1001 iterations: a table
\* exists only when the loop has ended with _ = 1001 and 1001 environment
\* steps, at most one table is ever written, a run that reaches its end has
\* written exactly one, and a run that failed has written none and has kept
\* no record.
C7_WriteOnceAtEnd ==
  /\ Len(csv) <= 1
  /\ csv # <<>> =>
       /\ pc[1] \in {"close", "done"}
       /\ idx = steps
       /\ wrapper.step_calls = 1001
  /\ pc[1] \in {"close", "done"} => Len(csv) = 1
  /\ pc[1] = "aborted" =>
       /\ csv = <<>>
       /\ model_list.len = 0 /\ pearson_list.len = 0 /\ ssim_list.len = 0
       /\ spearman_list.len = 0 /\ action_list.len = 0
C7_Witness ==
  /\ pc[1] = "aborted"
  /\ idx = 500
  /\ csv = <<>>

\* C8: check_models only prints: whatever its comparisons yield, the step
\* after it is the creation of the analyzer of the variant just checked (no
\* error ends the run) and no model, weight or analyzer has changed.
C8_CheckOnlyPrints ==
  [][pc[1] = "check" =>
       /\ pc' = <<"explainer", pc[2]>>
       /\ weights' = weights
       /\ models' = models
       /\ analyzers' = analyzers
       /\ layer' = layer]_vars
C8_Witness ==
  /\ pc = <<"loop", 0>>
  /\ idx = 0
  /\ \E i \in CheckedLayers : check_out[i] = <<FALSE, FALSE>>
  /\ \E i \in CheckedLayers : check_out[i] = <<TRUE, TRUE>>

NonConstant(im) == MaxOf(im.pix) # MinOf(im.pix)

\* C9 (as amended): for a map with nonzero range (max # min) every pixel of
\* normalise_image's output lies in [0,1], at least one pixel is 0 and at
\* least one pixel is 1.
C9_NormalisedRange ==
  (normalised # NoImage /\ NonConstant(image)) =>
    /\ normalised.den > 0
    /\ Len(normalised.pix) = Len(image.pix)
    /\ \A i \in 1..Len(normalised.pix) :
         0 <= normalised.pix[i] /\ normalised.pix[i] <= normalised.den
    /\ \E i \in 1..Len(normalised.pix) : normalised.pix[i] = 0
    /\ \E i \in 1..Len(normalised.pix) : normalised.pix[i] = normalised.den
C9_Witness ==
  /\ normalised # NoImage
  /\ NonConstant(image)
  /\ Cardinality({i \in 1..Len(normalised.pix) : normalised.pix[i] = 0}) = 2
  /\ \E i \in 1..Len(normalised.pix) : normalised.pix[i] = normalised.den

\* C9 as stated: for a map with nonzero range exactly one pixel of the
\* output is 0.
C9_ExactlyOneZero ==
  (normalised # NoImage /\ NonConstant(image)) =>
    Cardinality({i \in 1..Len(normalised.pix) : normalised.pix[i] = 0}) = 1

IsSelfCall(c) == c.random = c.learned
IsComplementCall(c) == c.random = OneMinus(normalise_image(c.learned))
ScoresOfCall(i) ==
  [pearson |-> Row(pearson_list, i), ssim |-> Row(ssim_list, i),
   spearman |-> Row(spearman_list, i)]

\* C10 (as amended): for a non-constant map m, calc_sim of m against its
\* exact complement 1 - normalised m gives the same pearson, ssim and
\* spearman scores as calc_sim of m against m itself: the maximization over
\* candidate and complement makes the two comparisons alike.
C10_ComplementScoresAsSelf ==
  \A i, j \in 1..Len(calls) :
    (/\ NonConstant(calls[i].learned)
     /\ IsComplementCall(calls[i])
     /\ IsSelfCall(calls[j]))
    => ScoresOfCall(i) = ScoresOfCall(j)
C10_Witness ==
  \E i, j \in 1..Len(calls) :
    /\ NonConstant(calls[i].learned)
    /\ IsComplementCall(calls[i])
    /\ IsSelfCall(calls[j])
    /\ ScoresOfCall(i).spearman = One
    /\ ScoresOfCall(i).ssim = One
    /\ ScoresOfCall(i).pearson = One

\* C10 as stated: for a non-constant map m, the scores calc_sim gives for m
\* against its complement are those obtained without the maximization.
C10_SameWithoutMaximization ==
  \A i \in 1..Len(calls) :
    (NonConstant(calls[i].learned) /\ IsComplementCall(calls[i]))
    => ScoresOfCall(i) = calc_sim_scores_no_max(calls[i].learned, calls[i].random)

C12_DepthBookkeeping ==
  /\ InLoop =>
       /\ \A k \in Slots :
            /\ saliency_fns[k] = [analyzer |-> k, method |-> Method(approach)]
            /\ analyzers[k].model = models[k]
            /\ Randomized(k) = {LayerOrder[j] : j \in 1..k}
       /\ \A j, k \in Slots : j # k => models[j] # models[k]
  /\ og_saliency_map # NoMap =>
       /\ og_saliency_map.by = 0
       /\ og_saliency_map.model = models[0]
       /\ og_saliency_map.method = Method(approach)
       /\ weights[og_saliency_map.model] = TrainedWeights
  /\ PostWarmUp =>
       /\ \A k \in 1..5 : Evaluated(k) =>
            /\ saliency_maps[k].by = k
            /\ saliency_maps[k].model = models[k]
            /\ saliency_maps[k].method = Method(approach)
            /\ saliency_maps[k].step = og_saliency_map.step
            /\ Row(model_list, RowOf(k)) = k
            /\ Row(pearson_list, RowOf(k)) = Score(og_saliency_map, saliency_maps[k])
            /\ Row(ssim_list, RowOf(k)) = Score(og_saliency_map, saliency_maps[k])
            /\ Row(spearman_list, RowOf(k)) = Score(og_saliency_map, saliency_maps[k])
       /\ \A k \in 6..7 : Evaluated(k) =>
            /\ Row(model_list, RowOf(k)) = k
            /\ Row(pearson_list, RowOf(k)) = Score(og_saliency_map, random_map(k, idx))
            /\ Row(ssim_list, RowOf(k)) = Score(og_saliency_map, random_map(k, idx))
            /\ Row(spearman_list, RowOf(k)) = Score(og_saliency_map, random_map(k, idx))
       /\ pc = <<"compare", 7>> => test = random_map(6, idx)
       /\ pc[1] = "step" => test = random_map(7, idx)
C12_Witness ==
  /\ pc = <<"step", 0>>
  /\ idx = WarmUpSteps + 3
  /\ approach = "lime"
  /\ saliency_maps[3].model = models[3]
  /\ Randomized(3) = {6, 5, 3}
  /\ Row(model_list, RowOf(3)) = 3
  /\ Row(pearson_list, RowOf(3)) = 8 * idx + 3
  /\ Row(model_list, RowOf(7)) = 7
  /\ test.method = "np.random.normal"

====
